---- MODULE Spec2Model ----
(***************************************************************************)
(* Model of sagemaker/workflow/conditions.py: the condition classes, their *)
(* constructors, to_request and primitive_or_expr.                         *)
(*                                                                         *)
(* Python objects live in an object store: `heap` holds the Condition      *)
(* nodes (address = index), `lists` holds the list objects.  A Python      *)
(* value is a record with a `cls` field (its class) and at most one of     *)
(*   expr : the value of its `expr` attribute (the object exposes .expr)   *)
(*   lit  : the repr of a literal scalar                                   *)
(*   ref  : the address of a Condition node or of a list object            *)
(* A rendered request structure is a record keyed by the wire keys; a      *)
(* raised exception is the record [raise |-> <exception class>].           *)
(***************************************************************************)
EXTENDS Integers, Sequences, FiniteSets, TLC

VARIABLES
  heap,      \* the Condition nodes, by address
  lists,     \* the list objects, by address
  created,   \* the last constructor call that returned, with its arguments
  rendered,  \* the caller's last to_request call since its last write, and
             \* what the call returned
  resolved,  \* the caller's last primitive_or_expr call and what it returned
  threads,   \* per thread, the frames of its to_request call and its result
  fresh,     \* history: what to_request returned for each node once constructed
  touched    \* history: the nodes and lists the caller has written to since

vars == <<heap, lists, created, rendered, resolved, threads, fresh, touched>>

(* ---------------------------- bounds ----------------------------------- *)

\* nodes the caller constructs in the single-object specification Spec
MaxObjects == 1
\* nodes the caller constructs in the nesting specifications
MaxNodes == 3
\* longest candidate list handed to ConditionIn
MaxValues == 2
\* longest condition list handed to ConditionOr
MaxConds == 2
\* to_request calls made in a row on one node
MaxCalls == 2
\* nodes the caller constructs before the threads, or its own writes, start
MaxShared == 2
\* objects the caller writes to after their construction
MaxTouched == 1

(* ---------------------------- values ----------------------------------- *)

None == [cls |-> "NoneType"]
\* an argument the caller leaves out of a call (not a Python value)
Omitted == [cls |-> "<omitted>"]
NoCall == [cls |-> "<no call>"]

Sym(c, path) == [cls |-> c, expr |-> [Get |-> path]]
Lit(c, repr) == [cls |-> c, lit |-> repr]

P == Sym("Parameter", "Parameters.InstanceCount")
Q == Sym("Properties", "Steps.Train.ModelArtifacts")
E == Sym("ExecutionVariable", "Execution.PipelineName")
X == Sym("Expression", "Expression.Join")
\* an object of an unrelated class that happens to expose .expr
Duck == Sym("Duck", "Duck.expr")
Lit1 == Lit("int", "1")
LitA == Lit("str", "a")
LitT == Lit("bool", "True")

ComparisonSubclasses ==
  {"ConditionEquals", "ConditionGreaterThan", "ConditionGreaterThanOrEqualTo",
   "ConditionLessThan", "ConditionLessThanOrEqualTo"}
ComparisonClasses == ComparisonSubclasses \cup {"ConditionComparison"}
ConditionClasses ==
  ComparisonClasses \cup {"ConditionIn", "ConditionNot", "ConditionOr"}

\* a reference to the node at address a
NodeRef(h, a) == [cls |-> h[a].cls, ref |-> a]
ListRef(a) == [cls |-> "list", ref |-> a]

\* all sequences over S of length at most n
SeqsUpTo(S, n) == UNION {[1..k -> S] : k \in 0..n}

(* ------------------------ ConditionTypeEnum ---------------------------- *)

ConditionTypeEnum ==
  ("EQ" :> "Equals") @@ ("GT" :> "GreaterThan") @@
  ("GTE" :> "GreaterThanOrEqualTo") @@ ("IN" :> "In") @@
  ("LT" :> "LessThan") @@ ("LTE" :> "LessThanOrEqualTo") @@
  ("NOT" :> "Not") @@ ("OR" :> "Or")
Members == DOMAIN ConditionTypeEnum

(* ----------------------- attribute access ------------------------------ *)

Raise(e) == [raise |-> e]
IsRaise(r) == "raise" \in DOMAIN r

\* value.expr : AttributeError when the object has no such attribute
GetExpr(value) ==
  IF "expr" \in DOMAIN value THEN value.expr ELSE Raise("AttributeError")

\* condition_type.value, condition_type a member of the enumeration
GetValue(condition_type) == ConditionTypeEnum[condition_type]

(* ------------------------ primitive_or_expr ---------------------------- *)

primitive_or_expr_duck(value) ==
  IF "expr" \in DOMAIN value THEN value.expr ELSE value

primitive_or_expr(value) ==
  IF value.cls \in {"ExecutionVariable", "Expression", "Parameter", "Properties"}
  THEN value.expr
  ELSE value

(* ---------------------------- to_request ------------------------------- *)

RECURSIVE to_request(_, _, _)

\* the first exception raised while the elements of rs are produced in order
FirstRaise(rs) ==
  rs[CHOOSE i \in 1..Len(rs) : IsRaise(rs[i]) /\ \A j \in 1..(i - 1) : ~IsRaise(rs[j])]

\* value.to_request() for an arbitrary value
CallToRequest(h, ls, value) ==
  IF value.cls \in ConditionClasses THEN to_request(h, ls, value.ref)
  ELSE Raise("AttributeError")

\* variant: the left operand resolved like the right one
ComparisonToRequestResolveLeft(h, ls, self) ==
  [Type |-> GetValue(h[self].condition_type),
   LeftValue |-> primitive_or_expr(h[self].left),
   RightValue |-> primitive_or_expr(h[self].right)]

ComparisonToRequest(h, ls, self) ==
  LET type == GetValue(h[self].condition_type)
      left == GetExpr(h[self].left)
  IN  IF IsRaise(left) THEN left
      ELSE [Type |-> type,
            LeftValue |-> left,
            RightValue |-> primitive_or_expr(h[self].right)]

InToRequest(h, ls, self) ==
  LET type == GetValue(h[self].condition_type)
      query == GetExpr(h[self].value)
      in_values == h[self].in_values
  IN  IF IsRaise(query) THEN query
      ELSE IF in_values.cls # "list" THEN Raise("TypeError")
      ELSE [Type |-> type,
            QueryValue |-> query,
            Values |-> [i \in 1..Len(ls[in_values.ref]) |->
                          primitive_or_expr(ls[in_values.ref][i])]]

\* variant: the inner condition named, not rendered
NotToRequestShallow(h, ls, self) ==
  [Type |-> GetValue(h[self].condition_type),
   Expression |-> [Type |-> GetValue(h[h[self].expression.ref].condition_type)]]

NotToRequest(h, ls, self) ==
  LET type == GetValue(h[self].condition_type)
      inner == CallToRequest(h, ls, h[self].expression)
  IN  IF IsRaise(inner) THEN inner
      ELSE [Type |-> type, Expression |-> inner]

\* the elements of s, each kept at its first occurrence only
RECURSIVE Dedup(_)
Dedup(s) ==
  IF s = <<>> THEN <<>>
  ELSE LET front == Dedup(SubSeq(s, 1, Len(s) - 1))
       IN  IF \E i \in 1..Len(front) : front[i] = s[Len(s)] THEN front
           ELSE Append(front, s[Len(s)])

\* variant: the conditions collected into a set before they are rendered
OrToRequestDistinct(h, ls, self) ==
  LET terms == Dedup(ls[h[self].conditions.ref])
  IN  [Type |-> GetValue(h[self].condition_type),
       Conditions |-> [i \in 1..Len(terms) |-> CallToRequest(h, ls, terms[i])]]

OrToRequest(h, ls, self) ==
  LET type == GetValue(h[self].condition_type)
      conditions == h[self].conditions
  IN  IF conditions.cls # "list" THEN Raise("TypeError")
      ELSE LET rs == [i \in 1..Len(ls[conditions.ref]) |->
                        CallToRequest(h, ls, ls[conditions.ref][i])]
           IN  IF \E i \in 1..Len(rs) : IsRaise(rs[i]) THEN FirstRaise(rs)
               ELSE [Type |-> type, Conditions |-> rs]

\* method dispatch on the class of the node at address self
to_request(h, ls, self) ==
  CASE h[self].cls \in ComparisonClasses -> ComparisonToRequest(h, ls, self)
    [] h[self].cls = "ConditionIn" -> InToRequest(h, ls, self)
    [] h[self].cls = "ConditionNot" -> NotToRequest(h, ls, self)
    [] h[self].cls = "ConditionOr" -> OrToRequest(h, ls, self)

(* --------------------------- constructors ------------------------------ *)

\* variant: ConditionGreaterThanOrEqualTo hands GT to the base constructor
OwnKindCopied(cls) ==
  CASE cls = "ConditionEquals" -> "EQ"
    [] cls = "ConditionGreaterThan" -> "GT"
    [] cls = "ConditionGreaterThanOrEqualTo" -> "GT"
    [] cls = "ConditionLessThan" -> "LT"
    [] cls = "ConditionLessThanOrEqualTo" -> "LTE"
    [] cls = "ConditionIn" -> "IN"
    [] cls = "ConditionNot" -> "NOT"
    [] cls = "ConditionOr" -> "OR"

\* the ConditionTypeEnum member each subclass hands to the base constructor
OwnKind(cls) ==
  CASE cls = "ConditionEquals" -> "EQ"
    [] cls = "ConditionGreaterThan" -> "GT"
    [] cls = "ConditionGreaterThanOrEqualTo" -> "GTE"
    [] cls = "ConditionLessThan" -> "LT"
    [] cls = "ConditionLessThanOrEqualTo" -> "LTE"
    [] cls = "ConditionIn" -> "IN"
    [] cls = "ConditionNot" -> "NOT"
    [] cls = "ConditionOr" -> "OR"

\* attr.ib(default=None): an omitted argument takes the default
OrDefault(arg, default) == IF arg = Omitted THEN default ELSE arg

\* a parameter without a default: the call raises TypeError when it is left out
Bound(args) == \A i \in 1..Len(args) : args[i] # Omitted

Record(cls, args, a) == [cls |-> cls, args |-> args, ref |-> a]

\* a constructor returns: the node is stored at the next address
Construct(node, ls, args) ==
  /\ heap' = Append(heap, node)
  /\ lists' = ls
  /\ created' = Record(node.cls, args, Len(heap) + 1)
  /\ fresh' = Append(fresh, to_request(heap', lists', Len(heap) + 1))
  /\ UNCHANGED <<rendered, resolved, threads, touched>>

\* variant: left and right declared with a default of None
NewComparisonDefaults(cls, left, right, limit) ==
  /\ Len(heap) < limit
  /\ Construct([cls |-> cls, condition_type |-> OwnKind(cls),
                left |-> OrDefault(left, None), right |-> OrDefault(right, None)],
               lists, <<left, right>>)

\* ConditionEquals(left, right) and its four siblings
NewComparison(cls, left, right, limit) ==
  /\ Len(heap) < limit
  /\ Bound(<<left, right>>)
  /\ Construct([cls |-> cls, condition_type |-> OwnKind(cls),
                left |-> left, right |-> right],
               lists, <<left, right>>)

\* ConditionComparison(condition_type, left=None, right=None), the constructor
\* attr.s generates; condition_type ranges over the members, whether passed or
\* produced by the factory default
NewConditionComparison(condition_type, left, right, limit) ==
  /\ Len(heap) < limit
  /\ Construct([cls |-> "ConditionComparison", condition_type |-> condition_type,
                left |-> OrDefault(left, None), right |-> OrDefault(right, None)],
               lists, <<left, right>>)

\* variant: self.in_values = list(in_values)
NewInCopy(value, elems, limit) ==
  /\ Len(heap) < limit
  /\ Bound(<<value>>)
  /\ Construct([cls |-> "ConditionIn", condition_type |-> OwnKind("ConditionIn"),
                value |-> value, in_values |-> ListRef(Len(lists) + 2)],
               lists \o <<elems, elems>>, <<value, ListRef(Len(lists) + 1)>>)

\* ConditionIn(value, in_values), in_values a list the caller has just built
\* from elems; the node keeps the list itself
NewIn(value, elems, limit) ==
  /\ Len(heap) < limit
  /\ Bound(<<value>>)
  /\ Construct([cls |-> "ConditionIn", condition_type |-> OwnKind("ConditionIn"),
                value |-> value, in_values |-> ListRef(Len(lists) + 1)],
               Append(lists, elems), <<value, ListRef(Len(lists) + 1)>>)

\* ConditionNot(expression)
NewNot(expression, limit) ==
  /\ Len(heap) < limit
  /\ Bound(<<expression>>)
  /\ Construct([cls |-> "ConditionNot", condition_type |-> OwnKind("ConditionNot"),
                expression |-> expression],
               lists, <<expression>>)

\* variant: self.conditions = conditions
OrEmptyKept(conditions, ls) == [stored |-> conditions, lists |-> ls]

\* self.conditions = conditions or [] : a falsy argument is replaced by a new list
OrEmpty(conditions, ls) ==
  IF conditions.cls = "list" /\ Len(ls[conditions.ref]) > 0
  THEN [stored |-> conditions, lists |-> ls]
  ELSE [stored |-> ListRef(Len(ls) + 1), lists |-> Append(ls, <<>>)]

\* ConditionOr(conditions=None), the argument left out or None
NewOrDefault(conditions, limit) ==
  /\ Len(heap) < limit
  /\ conditions \in {Omitted, None}
  /\ LET kept == OrEmpty(OrDefault(conditions, None), lists)
     IN  Construct([cls |-> "ConditionOr", condition_type |-> OwnKind("ConditionOr"),
                    conditions |-> kept.stored],
                   kept.lists, <<conditions>>)

\* ConditionOr(conditions) with a list the caller has just built from elems
NewOr(elems, limit) ==
  /\ Len(heap) < limit
  /\ LET passed == ListRef(Len(lists) + 1)
         kept == OrEmpty(passed, Append(lists, elems))
     IN  Construct([cls |-> "ConditionOr", condition_type |-> OwnKind("ConditionOr"),
                    conditions |-> kept.stored],
                   kept.lists, <<passed>>)

(* ------------------------------ calls ---------------------------------- *)

\* how many times in a row to_request has now been called on the node at self
Nth(self) ==
  IF rendered # NoCall /\ rendered.self = self THEN rendered.nth + 1 ELSE 1

\* variant: the terms and candidates taken off their list as they are rendered
ToRequestConsuming(self, limit) ==
  /\ self \in 1..Len(heap)
  /\ Nth(self) <= limit
  /\ rendered' = [self |-> self, out |-> to_request(heap, lists, self), nth |-> Nth(self)]
  /\ lists' = IF heap[self].cls = "ConditionOr"
                THEN [lists EXCEPT ![heap[self].conditions.ref] = <<>>]
                ELSE IF heap[self].cls = "ConditionIn"
                THEN [lists EXCEPT ![heap[self].in_values.ref] = <<>>]
                ELSE lists
  /\ UNCHANGED <<heap, created, resolved, threads, fresh, touched>>

\* the caller calls node.to_request() on the node at address self, at most
\* limit times in a row on the same node
ToRequest(self, limit) ==
  /\ self \in 1..Len(heap)
  /\ Nth(self) <= limit
  /\ rendered' = [self |-> self, out |-> to_request(heap, lists, self), nth |-> Nth(self)]
  /\ UNCHANGED <<heap, lists, created, resolved, threads, fresh, touched>>

\* the caller calls primitive_or_expr(value)
PrimitiveOrExpr(value) ==
  /\ resolved' = [value |-> value, out |-> primitive_or_expr(value)]
  /\ UNCHANGED <<heap, lists, created, rendered, threads, fresh, touched>>

(* -------------------------- the caller's writes ------------------------ *)

\* every sub-condition was constructed before the node that holds it, so that
\* the recursion of to_request ends
Acyclic(h, ls) ==
  \A a \in 1..Len(h) :
    /\ (h[a].cls = "ConditionNot" /\ h[a].expression.cls \in ConditionClasses)
         => h[a].expression.ref < a
    /\ (h[a].cls = "ConditionOr" /\ h[a].conditions.cls = "list")
         => \A i \in 1..Len(ls[h[a].conditions.ref]) :
              ls[h[a].conditions.ref][i].cls \in ConditionClasses
                => ls[h[a].conditions.ref][i].ref < a

\* the caller may write to one more object, or again to one written before
MayTouch(object, limit) == Cardinality(touched \cup {object}) <= limit

\* node.attr = value, attr one of the attributes the node has
SetAttr(self, attr, value, limit) ==
  /\ self \in 1..Len(heap)
  /\ attr \in DOMAIN heap[self] \ {"cls"}
  /\ MayTouch(<<"node", self>>, limit)
  /\ heap' = [heap EXCEPT ![self][attr] = value]
  /\ Acyclic(heap', lists)
  /\ touched' = touched \cup {<<"node", self>>}
  /\ rendered' = NoCall
  /\ UNCHANGED <<lists, created, resolved, threads, fresh>>

\* the_list.append(value), the_list a list the caller passed to a constructor
ListAppend(l, value, limit) ==
  /\ l \in 1..Len(lists)
  /\ Len(lists[l]) < MaxValues
  /\ MayTouch(<<"list", l>>, limit)
  /\ lists' = [lists EXCEPT ![l] = Append(@, value)]
  /\ Acyclic(heap, lists')
  /\ touched' = touched \cup {<<"list", l>>}
  /\ rendered' = NoCall
  /\ UNCHANGED <<heap, created, resolved, threads, fresh>>

\* the_list.clear()
ListClear(l, limit) ==
  /\ l \in 1..Len(lists)
  /\ MayTouch(<<"list", l>>, limit)
  /\ lists' = [lists EXCEPT ![l] = <<>>]
  /\ touched' = touched \cup {<<"list", l>>}
  /\ rendered' = NoCall
  /\ UNCHANGED <<heap, created, resolved, threads, fresh>>

(* ------------------------------ threads -------------------------------- *)
(* A thread's to_request call, one node at a time: the stack holds a frame  *)
(* per to_request activation, with the position i in the sub-conditions    *)
(* and the renderings acc collected so far.                                *)

Threads == {"t1", "t2"}
Idle == [stack |-> <<>>, result |-> NoCall]

Frame(self) ==
  [self |-> self, type |-> GetValue(heap[self].condition_type), i |-> 1, acc |-> <<>>]

\* the activation on top of thread t's stack returns r: an exception unwinds
\* the whole stack, a value goes to the calling activation or to the caller
Return(t, r) ==
  LET stack == threads[t].stack
      n == Len(stack)
  IN  IF IsRaise(r) \/ n = 1
      THEN [stack |-> <<>>, result |-> [self |-> stack[1].self, out |-> r]]
      ELSE [stack |-> Append(SubSeq(stack, 1, n - 2),
                             [stack[n - 1] EXCEPT !.i = @ + 1, !.acc = Append(@, r)]),
            result |-> NoCall]

\* thread t evaluates value.to_request() from its top activation
Enter(t, value) ==
  IF value.cls \in ConditionClasses
  THEN [threads[t] EXCEPT !.stack = Append(@, Frame(value.ref))]
  ELSE Return(t, Raise("AttributeError"))

\* thread t after the next step of its top activation
StepOf(t) ==
  LET f == threads[t].stack[Len(threads[t].stack)]
      node == heap[f.self]
  IN  CASE node.cls \in ComparisonClasses ->
             Return(t, ComparisonToRequest(heap, lists, f.self))
        [] node.cls = "ConditionIn" ->
             Return(t, InToRequest(heap, lists, f.self))
        [] node.cls = "ConditionNot" ->
             IF f.i = 1 THEN Enter(t, node.expression)
             ELSE Return(t, [Type |-> f.type, Expression |-> f.acc[1]])
        [] node.cls = "ConditionOr" ->
             IF node.conditions.cls # "list" THEN Return(t, Raise("TypeError"))
             ELSE IF f.i <= Len(lists[node.conditions.ref])
             THEN Enter(t, lists[node.conditions.ref][f.i])
             ELSE Return(t, [Type |-> f.type, Conditions |-> f.acc])

\* thread t calls to_request on the node at self
Call(t, self) ==
  /\ threads[t] = Idle
  /\ self \in 1..Len(heap)
  /\ threads' = [threads EXCEPT ![t].stack = <<Frame(self)>>]
  /\ UNCHANGED <<heap, lists, created, rendered, resolved, fresh, touched>>

\* variant: ConditionOr.to_request takes each condition off the list it renders
StepConsuming(t) ==
  /\ threads[t].stack # <<>>
  /\ threads' = [threads EXCEPT ![t] = StepOf(t)]
  /\ LET f == threads[t].stack[Len(threads[t].stack)]
         node == heap[f.self]
     IN  lists' = IF node.cls = "ConditionOr" /\ f.i <= Len(lists[node.conditions.ref])
                  THEN [lists EXCEPT ![node.conditions.ref] = Tail(@)]
                  ELSE lists
  /\ UNCHANGED <<heap, created, rendered, resolved, fresh, touched>>

\* thread t runs the next step of its call; it reads nodes and lists only
Step(t) ==
  /\ threads[t].stack # <<>>
  /\ threads' = [threads EXCEPT ![t] = StepOf(t)]
  /\ UNCHANGED <<heap, lists, created, rendered, resolved, fresh, touched>>

(* -------------------- Spec: one node, every argument ------------------- *)

Init ==
  /\ heap = <<>>
  /\ lists = <<>>
  /\ created = NoCall
  /\ rendered = NoCall
  /\ resolved = NoCall
  /\ threads = [t \in Threads |-> Idle]
  /\ fresh = <<>>
  /\ touched = {}

Refs == {NodeRef(heap, a) : a \in 1..Len(heap)}

LeftArgs == {Omitted, None, P, E, Lit1, LitA}
RightArgs == {Omitted, None, Q, Lit1, LitA, LitT}
Candidates == {Lit1, LitA, Q}

Next ==
  \/ \E cls \in ComparisonSubclasses, left \in LeftArgs, right \in RightArgs :
       NewComparison(cls, left, right, MaxObjects)
  \/ \E condition_type \in Members, left \in LeftArgs, right \in RightArgs :
       NewConditionComparison(condition_type, left, right, MaxObjects)
  \/ \E value \in {Omitted, P, Lit1}, elems \in SeqsUpTo(Candidates, MaxValues) :
       NewIn(value, elems, MaxObjects)
  \/ \E expression \in {Omitted, None} \cup Refs : NewNot(expression, MaxObjects)
  \/ \E conditions \in {Omitted, None} : NewOrDefault(conditions, MaxObjects)
  \/ \E elems \in SeqsUpTo(Refs, MaxConds) : NewOr(elems, MaxObjects)
  \/ \E self \in 1..Len(heap) : ToRequest(self, 1)

Spec == Init /\ [][Next]_vars

(* ------------------------- claims under Spec --------------------------- *)

IsLiteral(value) == "lit" \in DOMAIN value
HasExpr(value) == "expr" \in DOMAIN value
Called == rendered # NoCall
\* the node the last to_request call was made on
Self == heap[rendered.self]

\* the wire string of each class with a fixed kind, as the documentation lists them
WireOf(cls) ==
  CASE cls = "ConditionEquals" -> "Equals"
    [] cls = "ConditionGreaterThan" -> "GreaterThan"
    [] cls = "ConditionGreaterThanOrEqualTo" -> "GreaterThanOrEqualTo"
    [] cls = "ConditionLessThan" -> "LessThan"
    [] cls = "ConditionLessThanOrEqualTo" -> "LessThanOrEqualTo"
    [] cls = "ConditionIn" -> "In"
    [] cls = "ConditionNot" -> "Not"
    [] cls = "ConditionOr" -> "Or"

\* C2 as stated: a comparison of kind K built from two literals (a, b) renders
\* {"Type": wire(K), "LeftValue": resolve(a), "RightValue": resolve(b)}.
C2_LiteralPairRenders ==
  (Called /\ Self.cls \in ComparisonSubclasses
          /\ IsLiteral(Self.left) /\ IsLiteral(Self.right))
    => rendered.out = [Type |-> WireOf(Self.cls),
                       LeftValue |-> Self.left,
                       RightValue |-> Self.right]

\* C2 amended: with a literal right operand b, a comparison of kind K renders
\* {"Type": wire(K), "LeftValue": a.expr, "RightValue": b} when its left operand
\* a exposes expr, and to_request raises AttributeError when a is a literal:
\* the left operand is read through .expr, never through primitive_or_expr.
C2_LeftNeedsExpr ==
  (Called /\ Self.cls \in ComparisonSubclasses /\ IsLiteral(Self.right))
    => /\ HasExpr(Self.left)
            => rendered.out = [Type |-> WireOf(Self.cls),
                               LeftValue |-> Self.left.expr,
                               RightValue |-> Self.right]
       /\ IsLiteral(Self.left) => rendered.out = Raise("AttributeError")

\* a comparison of two literals has been rendered, and the call raised
C2_Witness ==
  /\ Called /\ Self.cls = "ConditionLessThan"
  /\ Self.left = Lit1 /\ Self.right = LitA
  /\ rendered.out = Raise("AttributeError")

\* C4 as stated: no Comparison is ever constructed whose left or right operand
\* is missing (omitted or None), and no Negation whose sub-condition is missing.
C4_MissingOperandRejected ==
  \A a \in 1..Len(heap) :
    /\ heap[a].cls \in ComparisonClasses
         => heap[a].left # None /\ heap[a].right # None
    /\ heap[a].cls = "ConditionNot" => heap[a].expression # None

\* C4 amended: only an argument left out of ConditionNot, ConditionIn or one of
\* the five comparison subclasses is rejected at construction; None is accepted
\* by every constructor, and ConditionComparison and ConditionOr accept an
\* omitted argument (it defaults to None).  The node is constructed, and the
\* missing operand shows at to_request: a None left operand or sub-condition
\* raises AttributeError, a None right operand is rendered as RightValue None.
C4_MissingOperandSurfacesAtRender ==
  /\ (created # NoCall /\ \E i \in 1..Len(created.args) : created.args[i] = Omitted)
       => created.cls \in {"ConditionComparison", "ConditionOr"}
  /\ (Called /\ Self.cls \in ComparisonClasses /\ Self.left = None)
       => rendered.out = Raise("AttributeError")
  /\ (Called /\ Self.cls = "ConditionNot" /\ Self.expression = None)
       => rendered.out = Raise("AttributeError")
  /\ (Called /\ Self.cls \in ComparisonClasses /\ HasExpr(Self.left)
              /\ Self.right = None)
       => ~IsRaise(rendered.out) /\ rendered.out.RightValue = None

\* ConditionEquals(None, None) was constructed and its to_request raised
C4_Witness ==
  /\ Called /\ Self.cls = "ConditionEquals"
  /\ created.args = <<None, None>> /\ created.ref = rendered.self
  /\ rendered.out = Raise("AttributeError")

\* C5 as stated: every node that carries left/right operands has one of the
\* five comparison kinds.
C5_ComparisonKindsOnly ==
  \A a \in 1..Len(heap) :
    heap[a].cls \in ComparisonClasses
      => heap[a].condition_type \in {"EQ", "GT", "GTE", "LT", "LTE"}

\* C5 amended: each of the five comparison subclasses and ConditionIn,
\* ConditionNot, ConditionOr always carries its own kind, and their
\* constructors take no kind; the public base ConditionComparison does take a
\* condition_type and carries whichever of the eight members it was given.
C5_FixedKinds ==
  \A a \in 1..Len(heap) :
    /\ heap[a].cls # "ConditionComparison"
         => GetValue(heap[a].condition_type) = WireOf(heap[a].cls)
    /\ heap[a].condition_type \in Members

\* a ConditionGreaterThanOrEqualTo node exists and carries its own kind
C5_Witness ==
  \E a \in 1..Len(heap) :
    /\ heap[a].cls = "ConditionGreaterThanOrEqualTo"
    /\ GetValue(heap[a].condition_type) = "GreaterThanOrEqualTo"

\* C8: a ConditionOr built with its argument left out, and one built with an
\* empty list, both render exactly {"Type": "Or", "Conditions": []}.
C8_EmptyOr ==
  (/\ Called /\ created.ref = rendered.self /\ created.cls = "ConditionOr"
   /\ \/ created.args[1] = Omitted
      \/ created.args[1].cls = "list" /\ lists[created.args[1].ref] = <<>>)
    => rendered.out = [Type |-> "Or", Conditions |-> <<>>]

\* ConditionOr() was constructed and rendered
C8_Witness ==
  /\ Called /\ created.ref = rendered.self /\ created.cls = "ConditionOr"
  /\ created.args[1] = Omitted
  /\ rendered.out = [Type |-> "Or", Conditions |-> <<>>]


(* --------------- SpecResolve: primitive_or_expr on any operand --------- *)

ListRefs == {ListRef(a) : a \in 1..Len(lists)}
Deferred == {P, Q, E, X}
Scalars == {Lit1, LitA, LitT}

NextResolve ==
  \/ \E expression \in {None} \cup Refs : NewNot(expression, MaxNodes)
  \/ \E elems \in SeqsUpTo({Lit1}, MaxValues) : NewIn(P, elems, MaxNodes)
  \/ \E value \in Deferred \cup Scalars \cup {None, Duck} \cup Refs \cup ListRefs :
       PrimitiveOrExpr(value)

SpecResolve == Init /\ [][NextResolve]_vars

\* C3: primitive_or_expr returns operand.expr for an ExecutionVariable,
\* Expression, Parameter or Properties operand and returns every other operand
\* itself: a literal scalar, None, a list, a Condition node, and an object of
\* another class that exposes expr.
C3_ExactlyFourTypesDeferred ==
  resolved # NoCall =>
    LET value == resolved.value
        out == resolved.out
    IN  /\ value \in Deferred => out = value.expr /\ out # value
        /\ value \in Scalars \cup {None} => out = value
        /\ value.cls = "list" => out = value /\ out.ref = value.ref
        /\ value.cls \in ConditionClasses => out = value /\ out.ref = value.ref
        /\ value = Duck => out = Duck /\ out # Duck.expr

\* primitive_or_expr was handed an object of another class exposing expr
C3_Witness == resolved # NoCall /\ resolved.value = Duck /\ resolved.out = Duck

(* ------------------ SpecTree: nested condition trees ------------------- *)

\* operands as the documentation types them: left and value symbolic, right
\* and the candidates symbolic or literal, sub-conditions Condition nodes
TreeComparisons ==
  {<<cls, P, Lit1>> : cls \in ComparisonSubclasses} \cup {<<"ConditionEquals", E, Q>>}
TreeCandidates == {<<Lit1, Q>>, <<Q, Lit1>>, <<Q, Q>>}

NextTree ==
  \/ \E c \in TreeComparisons : NewComparison(c[1], c[2], c[3], MaxNodes)
  \/ \E elems \in TreeCandidates : NewIn(P, elems, MaxNodes)
  \/ \E expression \in Refs : NewNot(expression, MaxNodes)
  \/ NewOrDefault(Omitted, MaxNodes)
  \/ \E elems \in SeqsUpTo(Refs, MaxConds) : NewOr(elems, MaxNodes)
  \/ \E self \in 1..Len(heap) : ToRequest(self, 1)

SpecTree == Init /\ [][NextTree]_vars

\* the list object a node's in_values or conditions attribute refers to
ListOf(value) == lists[value.ref]

\* C1: to_request returns a mapping whose "Type" is the node's wire string and
\* whose other keys are exactly those of its variant: LeftValue = left.expr
\* and RightValue = primitive_or_expr(right); QueryValue = value.expr and
\* Values = the candidates through primitive_or_expr; Expression =
\* to_request(inner); Conditions = to_request of each term; at every level.
C1_RenderTable ==
  Called =>
    CASE Self.cls \in ComparisonSubclasses ->
           rendered.out = [Type |-> WireOf(Self.cls),
                           LeftValue |-> Self.left.expr,
                           RightValue |-> primitive_or_expr(Self.right)]
      [] Self.cls = "ConditionIn" ->
           rendered.out = [Type |-> "In",
                           QueryValue |-> Self.value.expr,
                           Values |-> [i \in 1..Len(ListOf(Self.in_values)) |->
                                         primitive_or_expr(ListOf(Self.in_values)[i])]]
      [] Self.cls = "ConditionNot" ->
           rendered.out = [Type |-> "Not",
                           Expression |-> to_request(heap, lists, Self.expression.ref)]
      [] Self.cls = "ConditionOr" ->
           rendered.out = [Type |-> "Or",
                           Conditions |-> [i \in 1..Len(ListOf(Self.conditions)) |->
                                             to_request(heap, lists,
                                                        ListOf(Self.conditions)[i].ref)]]

\* Not(Or([In(p, [1, q])])) has been rendered, three levels deep
C1_Witness ==
  /\ Called
  /\ rendered.out =
       [Type |-> "Not",
        Expression |->
          [Type |-> "Or",
           Conditions |-> <<[Type |-> "In",
                             QueryValue |-> [Get |-> "Parameters.InstanceCount"],
                             Values |-> <<Lit1, [Get |-> "Steps.Train.ModelArtifacts"]>>]>>]]

\* C7: the rendered Values of a ConditionIn and Conditions of a ConditionOr
\* have the length of the list given, and their i-th element is the rendering
\* of the i-th element given: nothing is reordered, dropped or de-duplicated.
C7_OrderPreserved ==
  Called =>
    /\ Self.cls = "ConditionIn" =>
         /\ Len(rendered.out.Values) = Len(ListOf(Self.in_values))
         /\ \A i \in 1..Len(ListOf(Self.in_values)) :
              rendered.out.Values[i] = primitive_or_expr(ListOf(Self.in_values)[i])
    /\ Self.cls = "ConditionOr" =>
         /\ Len(rendered.out.Conditions) = Len(ListOf(Self.conditions))
         /\ \A i \in 1..Len(ListOf(Self.conditions)) :
              rendered.out.Conditions[i] =
                to_request(heap, lists, ListOf(Self.conditions)[i].ref)

\* an Or over two different terms, the later-built one first, has been rendered
C7_Witness ==
  /\ Called /\ Self.cls = "ConditionOr" /\ rendered.self = 3
  /\ ListOf(Self.conditions) = <<NodeRef(heap, 2), NodeRef(heap, 1)>>
  /\ heap[1].cls = "ConditionIn" /\ ListOf(heap[1].in_values) = <<Q, Q>>
  /\ heap[2].cls = "ConditionLessThan"
  /\ rendered.out.Conditions[1].Type = "LessThan"
  /\ rendered.out.Conditions[2].Values = <<Q.expr, Q.expr>>

(* --------------- SpecRepeat: to_request called repeatedly -------------- *)

NextRepeat ==
  \/ NewComparison("ConditionEquals", P, Lit1, MaxNodes)
  \/ NewIn(P, <<Lit1, Q>>, MaxNodes)
  \/ \E expression \in Refs : NewNot(expression, MaxNodes)
  \/ \E elems \in SeqsUpTo(Refs, MaxConds) : NewOr(elems, MaxNodes)
  \/ \E self \in 1..Len(heap) : ToRequest(self, MaxCalls)

SpecRepeat == Init /\ [][NextRepeat]_vars

\* C9: a to_request call writes nothing to any node or list, and a call that
\* follows a successful call on the same node returns the same structure.
C9_Idempotent ==
  [][rendered' # rendered =>
       /\ heap' = heap /\ lists' = lists
       /\ (Called /\ rendered'.self = rendered.self /\ ~IsRaise(rendered.out))
            => rendered'.out = rendered.out]_vars

\* to_request has been called twice in a row on an Or over a Not
C9_Witness ==
  /\ Called /\ rendered.nth = 2 /\ Self.cls = "ConditionOr"
  /\ Len(ListOf(Self.conditions)) = 2
  /\ ListOf(Self.conditions)[1].cls = "ConditionNot"
  /\ ~IsRaise(rendered.out)

(* -------------- SpecThreads: to_request from several threads ----------- *)

\* no thread has called to_request yet
Building == \A t \in Threads : threads[t] = Idle

NextThreads ==
  \/ Building /\ NewComparison("ConditionEquals", P, Lit1, MaxShared)
  \/ Building /\ NewIn(P, <<Lit1, Q>>, MaxShared)
  \/ \E expression \in Refs : Building /\ NewNot(expression, MaxShared)
  \/ \E elems \in SeqsUpTo(Refs, MaxConds) : Building /\ NewOr(elems, MaxShared)
  \/ \E t \in Threads, self \in 1..Len(heap) : Call(t, self)
  \/ \E t \in Threads : Step(t)

SpecThreads == Init /\ [][NextThreads]_vars

\* C10: however the steps of the threads' to_request calls interleave, no
\* step writes to a node or a list, and every call returns the structure a
\* single sequential to_request call on its node returns.
C10_ConcurrentRender ==
  [][threads' # threads =>
       /\ heap' = heap /\ lists' = lists
       /\ \A t \in Threads :
            threads'[t].result # NoCall
              => threads'[t].result.out = to_request(heap, lists, threads'[t].result.self)]_vars

\* both threads have rendered the same Or, whose two terms are one shared node
C10_Witness ==
  /\ \A t \in Threads : threads[t].result # NoCall /\ threads[t].result.self = 2
  /\ heap[2].cls = "ConditionOr"
  /\ ListOf(heap[2].conditions) = <<NodeRef(heap, 1), NodeRef(heap, 1)>>
  /\ threads["t1"].result.out = threads["t2"].result.out
  /\ Len(threads["t1"].result.out.Conditions) = 2

(* ------------- SpecMut: the caller writes to nodes and lists ----------- *)

\* the values the caller assigns to each attribute
Assigned(attr) ==
  CASE attr = "condition_type" -> {"GT"}
    [] attr \in {"left", "value"} -> {E}
    [] attr = "right" -> {LitA}
    [] attr = "expression" -> {None} \cup {r \in Refs : r.ref = 1}
    [] attr \in {"in_values", "conditions"} -> {r \in ListRefs : r.ref = 1}

Attributes ==
  {"condition_type", "left", "right", "value", "in_values", "expression", "conditions"}

\* the caller has written to nothing yet
Pristine == touched = {}

NextMut ==
  \/ Pristine /\ NewComparison("ConditionEquals", P, Lit1, MaxShared)
  \/ Pristine /\ NewIn(P, <<Lit1>>, MaxShared)
  \/ \E expression \in Refs : Pristine /\ NewNot(expression, MaxShared)
  \/ \E elems \in {<<>>} \cup {<<r>> : r \in Refs} : Pristine /\ NewOr(elems, MaxShared)
  \/ \E self \in 1..Len(heap), attr \in Attributes :
       \E value \in Assigned(attr) : SetAttr(self, attr, value, MaxTouched)
  \/ \E l \in 1..Len(lists), value \in {LitA} \cup {r \in Refs : r.ref = 1} :
       ListAppend(l, value, MaxTouched)
  \/ \E l \in 1..Len(lists) : ListClear(l, MaxTouched)
  \/ \E self \in 1..Len(heap) : ToRequest(self, 1)

SpecMut == Init /\ [][NextMut]_vars

\* the nodes and lists a to_request call on the node at address a reads
RECURSIVE Reach(_)
Reach(a) ==
  {<<"node", a>>} \cup
  CASE heap[a].cls = "ConditionIn" ->
         IF heap[a].in_values.cls = "list" THEN {<<"list", heap[a].in_values.ref>>} ELSE {}
    [] heap[a].cls = "ConditionNot" ->
         IF heap[a].expression.cls \in ConditionClasses
         THEN Reach(heap[a].expression.ref) ELSE {}
    [] heap[a].cls = "ConditionOr" ->
         IF heap[a].conditions.cls # "list" THEN {}
         ELSE {<<"list", heap[a].conditions.ref>>} \cup
              UNION {IF ListOf(heap[a].conditions)[i].cls \in ConditionClasses
                     THEN Reach(ListOf(heap[a].conditions)[i].ref) ELSE {} :
                     i \in 1..Len(ListOf(heap[a].conditions))}
    [] OTHER -> {}

\* C6 as stated: whatever the caller does after a node is constructed, a later
\* to_request returns what to_request returned right after construction.
C6_Immutable == Called => rendered.out = fresh[rendered.self]

\* C6 amended: nodes are ordinary mutable objects.  to_request returns what it
\* returned right after construction as long as the caller has written to no
\* node or list the call reads; an assignment to a node's attribute, or a
\* mutation of the list passed to ConditionIn or of a non-empty list passed to
\* ConditionOr, which the node holds by reference, shows in later renderings.
\* An empty list passed to ConditionOr is not held: the node stores a new one.
C6_MutableByCaller ==
  /\ (Called /\ Reach(rendered.self) \cap touched = {})
       => rendered.out = fresh[rendered.self]
  /\ (created # NoCall /\ <<"node", created.ref>> \notin touched)
       => /\ created.cls = "ConditionIn"
               => heap[created.ref].in_values = created.args[2]
          /\ (created.cls = "ConditionOr" /\ <<"list", created.args[1].ref>> \notin touched)
               => (heap[created.ref].conditions = created.args[1]
                     <=> ListOf(created.args[1]) # <<>>)

\* the list given to a ConditionIn was appended to, and the node, not written
\* to itself, now renders differently from its first rendering
C6_Witness ==
  /\ Called /\ Self.cls = "ConditionIn"
  /\ <<"node", rendered.self>> \notin touched
  /\ <<"list", Self.in_values.ref>> \in touched
  /\ ListOf(Self.in_values) = <<Lit1, LitA>>
  /\ rendered.out # fresh[rendered.self]

====
